---------------------------- MODULE Spec2Model ----------------------------
(***************************************************************************)
(* A model of problem.py of the bike-count pipeline:                       *)
(*   - get_cv, the generator of (train, test) folds (SpecCV);              *)
(*   - _encode_dates, _additional_date_variables, get_covid_data and       *)
(*     _merge_external_data, the table transforms (SpecTables, and       *)
(*     SpecDates for the date flags over a wider set of timestamps).       *)
(* Library calls (scikit-learn's TimeSeriesSplit, numpy's RandomState,     *)
(* pandas' copy / isin / sort_values / merge_asof) are modelled by what    *)
(* they compute at the call site.                                          *)
(***************************************************************************)
EXTENDS Integers, Sequences, FiniteSets, TLC

VARIABLES
    n_samples,   \* len(X) of the table handed to get_cv
    gen,         \* the generator objects returned by get_cv, one per invocation
    heap,        \* the DataFrame objects alive: heap[r] is the table of reference r
    X_in,        \* the caller's table as the caller built it
    call,        \* the last call of a table transform and its arguments
    ret,         \* the reference the last call returned (0: none)
    df_ext       \* what read_csv returned inside the last _merge_external_data

cvVars == <<n_samples, gen>>
tableVars == <<heap, X_in, call, ret, df_ext>>
vars == <<n_samples, gen, heap, X_in, call, ret, df_ext>>

-----------------------------------------------------------------------------
(* Bounds of the cross-validation model *)

MaxRows == 55
MaxSeed == 1

N_SPLITS == 8

Invocations == {1, 2}
Seeds == 0..MaxSeed

-----------------------------------------------------------------------------
(* numpy.random.RandomState: a deterministic stream fixed by the seed.     *)
(* The Mersenne twister is abstracted by a linear congruential generator;  *)
(* permutation and choice follow numpy's algorithms over that stream.      *)

RngModulus == 65537

RandomState(random_state) == (random_state * 7919 + 1) % RngModulus

rk_next(s) == (75 * s + 74) % RngModulus

\* rk_interval(max): a draw in 0..max
rk_interval(s, max) == s % (max + 1)

arange(lo, hi) == [i \in 1..(IF hi > lo THEN hi - lo ELSE 0) |-> lo + i - 1]

Swap(arr, i, j) == [arr EXCEPT ![i] = arr[j], ![j] = arr[i]]

\* RandomState.shuffle: for i in reversed(range(1, n)): j = rk_interval(i); swap
RECURSIVE shuffle(_, _, _)
shuffle(s, arr, i) ==
    IF i < 1 THEN [rng |-> s, arr |-> arr]
    ELSE LET s1 == rk_next(s)
             j  == rk_interval(s1, i)
         IN  shuffle(s1, Swap(arr, i + 1, j + 1), i - 1)

permutation(s, n) == shuffle(s, arange(0, n), n - 1)

\* size independent draws in 0..pop_size-1
RECURSIVE draws(_, _, _)
draws(s, pop_size, size) ==
    IF size = 0 THEN [rng |-> s, arr |-> <<>>]
    ELSE LET s1 == rk_next(s)
             r  == draws(s1, pop_size, size - 1)
         IN  [rng |-> r.rng, arr |-> <<rk_interval(s1, pop_size - 1)>> \o r.arr]

\* rng.choice(a, size=size, replace=True)
choice_replace(s, a, size) ==
    LET d == draws(s, Len(a), size)
    IN  [rng |-> d.rng, arr |-> [k \in 1..size |-> a[d.arr[k] + 1]]]

\* rng.choice(a, size=size, replace=False): idx = permutation(pop_size)[:size]; a[idx]
choice(s, a, size) ==
    LET p == permutation(s, Len(a))
    IN  [rng |-> p.rng, arr |-> [k \in 1..size |-> a[p.arr[k] + 1]]]

-----------------------------------------------------------------------------
(* sklearn.model_selection.TimeSeriesSplit(n_splits=8).split(X) *)

n_folds == N_SPLITS + 1

split_test_size(n) == n \div n_folds

\* split raises ValueError when there are fewer samples than folds
split_raises(n) == n_folds > n \/ n - split_test_size(n) * N_SPLITS <= 0

\* test_starts = range(n - n_splits * test_size, n, test_size); f = 1..n_splits
split_test_start(n, f) == n - N_SPLITS * split_test_size(n) + (f - 1) * split_test_size(n)

\* the indices after the test block
split_train_kfold(n, f) == arange(split_test_start(n, f) + split_test_size(n), n)

\* train = indices[:test_start]
split_train(n, f) == arange(0, split_test_start(n, f))

\* test = indices[test_start : test_start + test_size]
split_test(n, f) == arange(split_test_start(n, f), split_test_start(n, f) + split_test_size(n))

-----------------------------------------------------------------------------
(* get_cv *)

\* ceil(len(test_idx) / 3)
sample_size_rounded_up(test_idx) == (Len(test_idx) + 2) \div 3

\* size=len(test_idx) // 3
sample_size(test_idx) == Len(test_idx) \div 3

\* one generator for every invocation
rng_shared(i) == 1

\* rng is a local of the generator's frame: invocation i draws from its own
rng_of(i) == i

NoGen == [status |-> "none", random_state |-> 0, rng |-> 0, folds |-> <<>>]

NoCall == [fn |-> "none", drop_date |-> FALSE, holiday_names |-> FALSE, f_name |-> ""]

\* tables of n_folds - 1 rows are one row short of a split
InitCV ==
    /\ n_samples \in (n_folds - 1)..MaxRows
    /\ gen = [i \in Invocations |-> NoGen]
    /\ heap = <<>> /\ X_in = <<>> /\ call = NoCall /\ ret = 0 /\ df_ext = <<>>

\* get_cv(X, y, random_state): returns a generator; nothing of the body has run
Call_get_cv(i, random_state) ==
    /\ gen[i].status = "none"
    /\ gen' = [gen EXCEPT ![i] = [status |-> "created", random_state |-> random_state,
                                  rng |-> 0, folds |-> <<>>]]
    /\ UNCHANGED <<n_samples, tableVars>>

\* next(generator): the loop body yields one more (train_idx, sampled test_idx)
Next_yield(i) ==
    /\ gen[i].status \in {"created", "running"}
    /\ ~split_raises(n_samples)
    /\ Len(gen[i].folds) < N_SPLITS
    /\ LET f        == Len(gen[i].folds) + 1
           g0       == IF gen[i].status = "created"
                       THEN [gen EXCEPT ![rng_of(i)].rng = RandomState(gen[i].random_state)]
                       ELSE gen
           test_idx == split_test(n_samples, f)
           c        == choice(g0[rng_of(i)].rng, test_idx, sample_size(test_idx))
           g1       == [g0 EXCEPT ![rng_of(i)].rng = c.rng]
       IN  gen' = [g1 EXCEPT ![i].status = "running",
                             ![i].folds = Append(gen[i].folds,
                                 [train |-> split_train(n_samples, f),
                                  part  |-> test_idx,
                                  test  |-> c.arr])]
    /\ UNCHANGED <<n_samples, tableVars>>

\* next(generator) after the last split: StopIteration
Next_stop(i) ==
    /\ gen[i].status \in {"created", "running"}
    /\ ~split_raises(n_samples)
    /\ Len(gen[i].folds) = N_SPLITS
    /\ gen' = [gen EXCEPT ![i].status = "done"]
    /\ UNCHANGED <<n_samples, tableVars>>

\* first next(generator) on a table too short for 9 folds: ValueError from split
Next_raise(i) ==
    /\ gen[i].status = "created"
    /\ split_raises(n_samples)
    /\ gen' = [gen EXCEPT ![i].status = "raised"]
    /\ UNCHANGED <<n_samples, tableVars>>

NextCV ==
    \/ \E i \in Invocations, random_state \in Seeds : Call_get_cv(i, random_state)
    \/ \E i \in Invocations : Next_yield(i)
    \/ \E i \in Invocations : Next_stop(i)
    \/ \E i \in Invocations : Next_raise(i)

SpecCV == InitCV /\ [][NextCV]_vars

-----------------------------------------------------------------------------
(* Calendar.  A Timestamp (datetime64) is a number of hours since           *)
(* 2020-01-01 00:00; a datetime.date is a number of days since 2020-01-01.  *)

IsLeap(y) == (y % 4 = 0 /\ y % 100 # 0) \/ y % 400 = 0

DaysInYear(y) == IF IsLeap(y) THEN 366 ELSE 365

DaysInMonth(y, m) ==
    IF m = 2 THEN (IF IsLeap(y) THEN 29 ELSE 28)
    ELSE IF m \in {4, 6, 9, 11} THEN 30 ELSE 31

RECURSIVE days_before_year(_)
days_before_year(y) ==
    IF y <= 2020 THEN 0 ELSE days_before_year(y - 1) + DaysInYear(y - 1)

RECURSIVE days_before_month(_, _)
days_before_month(y, m) ==
    IF m <= 1 THEN 0 ELSE days_before_month(y, m - 1) + DaysInMonth(y, m - 1)

\* datetime.date(y, m, d)
Date(y, m, d) == days_before_year(y) + days_before_month(y, m) + d - 1

\* pd.Timestamp(y, m, d, h)
Timestamp(y, m, d, h) == Date(y, m, d) * 24 + h

\* converting a datetime.date to a Timestamp gives its midnight
to_datetime(d) == d * 24

\* Series.dt.date, .dt.hour, .dt.year, .dt.month, .dt.day, .dt.weekday
dt_date(ts) == ts \div 24

dt_hour(ts) == ts % 24

RECURSIVE year_of(_, _)
year_of(d, y) == IF d < DaysInYear(y) THEN y ELSE year_of(d - DaysInYear(y), y + 1)

dt_year(ts) == year_of(dt_date(ts), 2020)

day_of_year(ts) == dt_date(ts) - days_before_year(dt_year(ts))

RECURSIVE month_of(_, _, _)
month_of(y, doy, m) ==
    IF doy < DaysInMonth(y, m) THEN m ELSE month_of(y, doy - DaysInMonth(y, m), m + 1)

dt_month(ts) == month_of(dt_year(ts), day_of_year(ts), 1)

dt_day(ts) == day_of_year(ts) - days_before_month(dt_year(ts), dt_month(ts)) + 1

\* Monday is 0; 2020-01-01 is a Wednesday
dt_weekday(ts) == (dt_date(ts) + 2) % 7

\* pd.date_range(start, end): the midnights of the days start..end, both included
date_range(start, end) == {to_datetime(d) : d \in start..end}

-----------------------------------------------------------------------------
(* DataFrames.  A table is its column names in order and its rows in order; *)
(* a row maps each column to its value.  heap is the sequence of the        *)
(* DataFrame objects alive, a reference is a position in it.                *)

NaN == "NaN"

Range(f) == {f[k] : k \in DOMAIN f}

Column(t, c) == [k \in 1..Len(t.rows) |-> t.rows[k][c]]

\* a new object holding table t
Alloc(h, t) == [heap |-> Append(h, t), ref |-> Len(h) + 1]

\* the same object under another name
DfCopyAlias(h, r) == [heap |-> h, ref |-> r]

\* X.copy(): a new object with the same columns and values
DfCopy(h, r) == Alloc(h, h[r])

\* X.loc[:, c] = vals and X[c] = vals: in place, the column appended when new
SetCol(h, r, c, vals) ==
    [h EXCEPT ![r] =
        [cols |-> IF c \in Range(h[r].cols) THEN h[r].cols ELSE Append(h[r].cols, c),
         rows |-> [k \in 1..Len(h[r].rows) |-> (c :> vals[k]) @@ h[r].rows[k]]]]

\* the table without the columns cs
WithoutCols(t, cs) ==
    [cols |-> SelectSeq(t.cols, LAMBDA c : c \notin cs),
     rows |-> [k \in 1..Len(t.rows) |->
                 [c \in DOMAIN t.rows[k] \ cs |-> t.rows[k][c]]]]

\* X.drop(columns=cs): a new object
Drop(h, r, cs) == Alloc(h, WithoutCols(h[r], cs))

\* del X[c]: in place
DelCol(h, r, c) == [h EXCEPT ![r] = WithoutCols(h[r], {c})]

\* the rows of t in the order p
Reorder(t, p) == [cols |-> t.cols, rows |-> [k \in 1..Len(t.rows) |-> t.rows[p[k]]]]

\* X.sort_values(c) (quicksort, not stable): every order of the rows that is
\* ascending in c
sort_values(t, c) ==
    {Reorder(t, p) : p \in {q \in Permutations(1..Len(t.rows)) :
        \A i, j \in 1..Len(t.rows) : i < j => t.rows[q[i]][c] <= t.rows[q[j]][c]}}

-----------------------------------------------------------------------------
(* The calendars the holiday libraries serve *)

\* JoursFeries.for_year(year).values(): the public holidays of the year, as dates
JoursFeries_for_year(year) ==
    {Date(year, 1, 1), Date(year, 5, 1), Date(year, 5, 8), Date(year, 7, 14),
     Date(year, 8, 15), Date(year, 11, 1), Date(year, 11, 11), Date(year, 12, 25)}
    \cup (IF year = 2020 THEN {Date(2020, 4, 13), Date(2020, 5, 21), Date(2020, 6, 1)}
          ELSE IF year = 2021 THEN {Date(2021, 4, 5), Date(2021, 5, 13), Date(2021, 5, 24)}
          ELSE {})

\* the school holidays of zone C that fall in the year: first day, last day, name
vacances_zone_c(year) ==
    IF year = 2020 THEN
        {<<Date(2020, 1, 1), Date(2020, 1, 5), "Vacances de Noel">>,
         <<Date(2020, 2, 8), Date(2020, 2, 23), "Vacances d'hiver">>,
         <<Date(2020, 4, 4), Date(2020, 4, 19), "Vacances de printemps">>,
         <<Date(2020, 7, 4), Date(2020, 8, 31), "Vacances d'ete">>,
         <<Date(2020, 10, 17), Date(2020, 11, 1), "Vacances de la Toussaint">>,
         <<Date(2020, 12, 19), Date(2020, 12, 31), "Vacances de Noel">>}
    ELSE IF year = 2021 THEN
        {<<Date(2021, 1, 1), Date(2021, 1, 3), "Vacances de Noel">>,
         <<Date(2021, 2, 13), Date(2021, 2, 28), "Vacances d'hiver">>,
         <<Date(2021, 4, 10), Date(2021, 4, 25), "Vacances de printemps">>,
         <<Date(2021, 7, 6), Date(2021, 8, 31), "Vacances d'ete">>,
         <<Date(2021, 10, 23), Date(2021, 11, 7), "Vacances de la Toussaint">>,
         <<Date(2021, 12, 18), Date(2021, 12, 31), "Vacances de Noel">>}
    ELSE {}

\* SchoolHolidayDates().holidays_for_year_and_zone(year, "C"): one entry per date
holidays_for_year_and_zone(year) ==
    UNION {{[date |-> d, vacances_zone_c |-> TRUE, nom_vacances |-> v[3]] : d \in v[1]..v[2]} :
           v \in vacances_zone_c(year)}

\* re.sub("\s+|'", "_", re.sub("[ee]", "e", nom.lower()))
holiday_name(nom) ==
    CASE nom = "Vacances de Noel"         -> "vacances_de_noel"
      [] nom = "Vacances d'hiver"         -> "vacances_d_hiver"
      [] nom = "Vacances de printemps"    -> "vacances_de_printemps"
      [] nom = "Vacances d'ete"           -> "vacances_d_ete"
      [] nom = "Vacances de la Toussaint" -> "vacances_de_la_toussaint"
      [] OTHER                            -> nom

seasons(month) ==
    CASE month \in {12, 1, 2} -> "winter"
      [] month \in {3, 4, 5}  -> "spring"
      [] month \in {6, 7, 8}  -> "summer"
      [] OTHER                -> "autumn"

-----------------------------------------------------------------------------
(* get_covid_data *)

first_lockdown == date_range(Date(2020, 10, 30), Date(2020, 12, 15))

second_lockdown == date_range(Date(2021, 3, 20), Date(2021, 6, 9))

\* the column compared by its timestamps
covid_key_timestamp(ts) == ts

\* X_col.dt.date: the column is compared by its dates
covid_key(ts) == dt_date(ts)

\* X_col.dt.date.isin(combined.date)
get_covid_data(X_col) ==
    LET combined == first_lockdown \cup second_lockdown
    IN  [k \in DOMAIN X_col |-> covid_key(X_col[k]) \in {covid_key(t) : t \in combined}]

-----------------------------------------------------------------------------
(* _encode_dates *)

\* date and hour dropped together
encode_dropped_and_hour == {"date", "hour"}

\* X.drop(columns=["date"])
encode_dropped == {"date"}

_encode_dates(h, x, drop_date) ==
    LET c  == DfCopy(h, x)
        X  == c.ref
        h1 == SetCol(c.heap, X, "year",
                     [k \in 1..Len(c.heap[X].rows) |-> dt_year(Column(c.heap[X], "date")[k])])
        h2 == SetCol(h1, X, "month",
                     [k \in 1..Len(h1[X].rows) |-> dt_month(Column(h1[X], "date")[k])])
        h3 == SetCol(h2, X, "day",
                     [k \in 1..Len(h2[X].rows) |-> dt_day(Column(h2[X], "date")[k])])
        h4 == SetCol(h3, X, "weekday",
                     [k \in 1..Len(h3[X].rows) |-> dt_weekday(Column(h3[X], "date")[k])])
        h5 == SetCol(h4, X, "hour",
                     [k \in 1..Len(h4[X].rows) |-> dt_hour(Column(h4[X], "date")[k])])
    IN  IF drop_date THEN Drop(h5, X, encode_dropped) ELSE [heap |-> h5, ref |-> X]

-----------------------------------------------------------------------------
(* _additional_date_variables *)

\* Series(datetime64).isin(list of datetime.date): the dates are converted to
\* Timestamps, their midnights, and the column is compared with those
isin_dates(X_col, dates) ==
    [k \in DOMAIN X_col |-> X_col[k] \in {to_datetime(d) : d \in dates}]

\* Series(datetime64).map(dict keyed by datetime.date): the same conversion
map_dates(X_col, names) ==
    [k \in DOMAIN X_col |->
        IF \E e \in names : to_datetime(e[1]) = X_col[k]
        THEN (CHOOSE e \in names : to_datetime(e[1]) = X_col[k])[2]
        ELSE NaN]

_additional_date_variables(h, x, drop_date, holiday_names) ==
    LET c  == DfCopy(h, x)
        X  == c.ref
        h1 == SetCol(c.heap, X, "season",
                     [k \in 1..Len(c.heap[X].rows) |->
                         seasons(dt_month(Column(c.heap[X], "date")[k]))])
        years == {dt_year(ts) : ts \in Range(Column(h1[X], "date"))}
        public_holidays == UNION {JoursFeries_for_year(year) : year \in years}
        school_holidays == UNION {holidays_for_year_and_zone(year) : year \in years}
        h2 == SetCol(h1, X, "public_holiday", isin_dates(Column(h1[X], "date"), public_holidays))
        school_holidays_name ==
            {<<e.date, holiday_name(e.nom_vacances)>> : e \in {v \in school_holidays : v.vacances_zone_c}}
        school_holidays_bool == {e.date : e \in {v \in school_holidays : v.vacances_zone_c}}
        h3 == IF holiday_names
              THEN SetCol(h2, X, "school_holiday_name",
                          map_dates(Column(h2[X], "date"), school_holidays_name))
              ELSE SetCol(h2, X, "school_holiday",
                          isin_dates(Column(h2[X], "date"), school_holidays_bool))
        h4 == SetCol(h3, X, "covid_lockdown", get_covid_data(Column(h3[X], "date")))
    IN  IF drop_date THEN Drop(h4, X, {"date"}) ELSE [heap |-> h4, ref |-> X]

-----------------------------------------------------------------------------
(* _merge_external_data *)

\* allow_exact_matches=False
asof_matches_strictly(right_date, left_date) == right_date < left_date

\* direction="backward", allow_exact_matches=True
asof_matches(right_date, left_date) == right_date <= left_date

\* the last row of the sorted right table that matches, 0 when none does
asof_index(right, left_date) ==
    LET m == {j \in 1..Len(right.rows) : asof_matches(right.rows[j]["date"], left_date)}
    IN  IF m = {} THEN 0 ELSE CHOOSE j \in m : \A i \in m : i <= j

\* pd.merge_asof(left, right, on="date"): one row per left row, in left's order,
\* with right's other columns from the matching row, or null
merge_asof(left, right) ==
    LET others == SelectSeq(right.cols, LAMBDA c : c # "date")
    IN  [cols |-> left.cols \o others,
         rows |-> [k \in 1..Len(left.rows) |->
                     LET j == asof_index(right, left.rows[k]["date"])
                     IN  [c \in Range(others) |-> IF j = 0 THEN NaN ELSE right.rows[j][c]]
                         @@ left.rows[k]]]

\* the merged table left in date order
sort_back_skipped(t) == {t}

\* X.sort_values("orig_index")
sort_back(t) == sort_values(t, "orig_index")

\* weather_only selects the file that is read
f_name_of(weather_only) == IF weather_only THEN "weather_data_imp.csv" ELSE "external_data.csv"

\* every result the call can have; ext is what read_csv returned
_merge_external_data(h, x, ext) ==
    LET c  == DfCopy(h, x)
        X  == c.ref
        h1 == SetCol(c.heap, X, "orig_index", arange(0, Len(c.heap[X].rows)))
    IN  UNION {UNION {{LET a == Alloc(h1, s)
                       IN  [heap |-> DelCol(a.heap, a.ref, "orig_index"), ref |-> a.ref] :
                         s \in sort_back(merge_asof(l, r))} :
                      r \in sort_values(ext, "date")} :
               l \in sort_values(h1[X], "date")}

-----------------------------------------------------------------------------
(* The caller: it holds one table, reference 1, calls a transform on it and *)
(* keeps what the call returned until it lets go of it.                     *)

MaxTableRows == 2
MaxExtRows   == 2
MaxDateRows  == 1

SeqsUpTo(S, n) == UNION {[1..k -> S] : k \in 0..n}

\* the timestamps of the tables of SpecTables
Stamps ==
    {Timestamp(2020, 10, 29, 23), Timestamp(2020, 11, 11, 0), Timestamp(2020, 11, 11, 14),
     Timestamp(2020, 12, 15, 23), Timestamp(2020, 12, 16, 0)}

ExtStamps == {Timestamp(2020, 11, 11, 0), Timestamp(2020, 12, 15, 23)}

\* the timestamps of the tables of SpecDates: the days around the lockdowns and
\* holidays, at several hours
DateDays ==
    {Date(2020, 10, 29), Date(2020, 10, 30), Date(2020, 11, 11), Date(2020, 11, 15),
     Date(2020, 12, 15), Date(2020, 12, 16), Date(2021, 1, 1), Date(2021, 3, 19),
     Date(2021, 3, 20), Date(2021, 6, 9), Date(2021, 6, 10)}

DateStamps == {to_datetime(d) + hh : d \in DateDays, hh \in {0, 1, 14, 23}}

InputTables ==
    {[cols |-> <<"counter_name", "date">>, rows |-> rows] :
        rows \in SeqsUpTo([counter_name : {"A", "B"}, date : Stamps], MaxTableRows)}

DateTables ==
    {[cols |-> <<"counter_name", "date">>, rows |-> rows] :
        rows \in SeqsUpTo([counter_name : {"A"}, date : DateStamps], MaxDateRows)}

ExtTables ==
    {[cols |-> <<"date", "t">>, rows |-> rows] :
        rows \in SeqsUpTo([date : ExtStamps, t : {"w1", "w2"}], MaxExtRows)}

InitTables ==
    /\ n_samples = 0
    /\ gen = [i \in Invocations |-> NoGen]
    /\ X_in \in InputTables
    /\ heap = <<X_in>>
    /\ call = NoCall /\ ret = 0 /\ df_ext = <<>>

InitDates ==
    /\ n_samples = 0
    /\ gen = [i \in Invocations |-> NoGen]
    /\ X_in \in DateTables
    /\ heap = <<X_in>>
    /\ call = NoCall /\ ret = 0 /\ df_ext = <<>>

\* the call returns: its locals die, the caller's table and the result stay
Returns(res, c, ext) ==
    /\ heap' = IF res.ref = 1 THEN <<res.heap[1]>> ELSE <<res.heap[1], res.heap[res.ref]>>
    /\ ret' = IF res.ref = 1 THEN 1 ELSE 2
    /\ call' = c
    /\ df_ext' = ext
    /\ UNCHANGED <<n_samples, gen, X_in>>

Call_encode_dates(drop_date) ==
    /\ call.fn = "none"
    /\ Returns(_encode_dates(heap, 1, drop_date),
               [NoCall EXCEPT !.fn = "_encode_dates", !.drop_date = drop_date], <<>>)

Call_additional_date_variables(drop_date, holiday_names) ==
    /\ call.fn = "none"
    /\ Returns(_additional_date_variables(heap, 1, drop_date, holiday_names),
               [NoCall EXCEPT !.fn = "_additional_date_variables", !.drop_date = drop_date,
                              !.holiday_names = holiday_names], <<>>)

Call_merge_external_data(weather_only, ext) ==
    /\ call.fn = "none"
    /\ \E res \in _merge_external_data(heap, 1, ext) :
          Returns(res, [NoCall EXCEPT !.fn = "_merge_external_data",
                                      !.f_name = f_name_of(weather_only)], ext)

\* the caller lets go of the result
Discard ==
    /\ call.fn # "none"
    /\ heap' = <<heap[1]>>
    /\ call' = NoCall /\ ret' = 0 /\ df_ext' = <<>>
    /\ UNCHANGED <<n_samples, gen, X_in>>

NextTables ==
    \/ \E drop_date \in BOOLEAN : Call_encode_dates(drop_date)
    \/ \E drop_date \in BOOLEAN, holiday_names \in BOOLEAN :
          Call_additional_date_variables(drop_date, holiday_names)
    \/ \E weather_only \in BOOLEAN, ext \in ExtTables :
          Call_merge_external_data(weather_only, ext)
    \/ Discard

NextDates ==
    \/ \E drop_date \in BOOLEAN, holiday_names \in BOOLEAN :
          Call_additional_date_variables(drop_date, holiday_names)
    \/ Discard

SpecTables == InitTables /\ [][NextTables]_vars

SpecDates == InitDates /\ [][NextDates]_vars

-----------------------------------------------------------------------------
(* Properties of get_cv, checked under SpecCV *)

Distinct(seq) == \A a, b \in 1..Len(seq) : a # b => seq[a] # seq[b]

\* C1: a table of at least 9 rows never makes get_cv raise; the generator yields
\* at most 8 folds and has yielded exactly 8 when it stops; in every fold the test
\* indices are pairwise distinct, all of the split's test partition, and
\* floor(len(partition) / 3) many.
C1_EightFoldsSampledWithoutReplacement ==
    \A i \in Invocations :
        /\ n_samples >= 9 => gen[i].status # "raised"
        /\ Len(gen[i].folds) <= 8
        /\ gen[i].status = "done" => Len(gen[i].folds) = 8
        /\ \A f \in 1..Len(gen[i].folds) :
              LET fold == gen[i].folds[f]
              IN  /\ Distinct(fold.test)
                  /\ Range(fold.test) \subseteq Range(fold.part)
                  /\ Len(fold.test) = Len(fold.part) \div 3

\* a finished invocation whose folds each hold at least two sampled test indices
C1_Witness ==
    \E i \in Invocations :
        /\ gen[i].status = "done"
        /\ \A f \in 1..8 : Len(gen[i].folds[f].test) >= 2

\* C2: two invocations of get_cv on the same table with the same random_state
\* have yielded the same (train, test) pairs, fold by fold and in the same order,
\* however their next() calls interleave.
C2_SameSeedSameFolds ==
    \A i, j \in Invocations :
        (gen[i].status # "none" /\ gen[j].status # "none"
            /\ gen[i].random_state = gen[j].random_state)
        => \A f \in 1..Len(gen[i].folds) :
              f <= Len(gen[j].folds)
              => /\ gen[i].folds[f].train = gen[j].folds[f].train
                 /\ gen[i].folds[f].test = gen[j].folds[f].test

\* two invocations with the same seed, one finished and one three folds in,
\* on a table whose folds have sampled test indices
C2_Witness ==
    /\ gen[1].status = "running" /\ Len(gen[1].folds) = 3
    /\ gen[2].status = "done"
    /\ gen[1].random_state = gen[2].random_state
    /\ Len(gen[1].folds[3].test) >= 2

\* C3: in every fold every train index is smaller than every test index (so the
\* two are disjoint), and the train indices are the splitter's: all the positions
\* before the fold's test partition, in order.
C3_TrainPrecedesTest ==
    \A i \in Invocations : \A f \in 1..Len(gen[i].folds) :
        LET fold == gen[i].folds[f]
        IN  /\ \A a \in Range(fold.train), b \in Range(fold.test) : a < b
            /\ Range(fold.train) \cap Range(fold.test) = {}
            /\ Len(fold.train) = fold.part[1]
            /\ \A k \in 1..Len(fold.train) : fold.train[k] = k - 1

\* a fold with train and test indices both
C3_Witness ==
    \E i \in Invocations : \E f \in 1..Len(gen[i].folds) :
        Len(gen[i].folds[f].train) > 0 /\ Len(gen[i].folds[f].test) > 0

\* C9: on a table of 9 to 26 rows (test partitions of floor(n/9) < 3 elements)
\* get_cv raises nothing and every fold it yields has an empty test index set and
\* a non-empty train set; it has yielded 8 folds when it stops.
C9_SmallPartitionsYieldEmptyTests ==
    (9 <= n_samples /\ n_samples <= 26) =>
        \A i \in Invocations :
            /\ gen[i].status # "raised"
            /\ gen[i].status = "done" => Len(gen[i].folds) = 8
            /\ \A f \in 1..Len(gen[i].folds) :
                  /\ Len(gen[i].folds[f].part) = n_samples \div 9
                  /\ Len(gen[i].folds[f].part) < 3
                  /\ gen[i].folds[f].test = <<>>
                  /\ gen[i].folds[f].train # <<>>

\* a finished invocation on a table of 26 rows
C9_Witness ==
    n_samples = 26 /\ \E i \in Invocations : gen[i].status = "done"

-----------------------------------------------------------------------------
(* Properties of the table transforms, checked under SpecTables *)

Returned == heap[ret]

\* C4: the table _merge_external_data returns has one row per input row, in the
\* input's order: its k-th row carries the k-th input row's value in every input
\* column; and it has no column orig_index.
C4_MergeKeepsRowsAndOrder ==
    call.fn = "_merge_external_data" =>
        /\ Len(Returned.rows) = Len(X_in.rows)
        /\ \A k \in 1..Len(X_in.rows) : \A c \in Range(X_in.cols) :
              c \in DOMAIN Returned.rows[k] /\ Returned.rows[k][c] = X_in.rows[k][c]
        /\ "orig_index" \notin Range(Returned.cols)
        /\ \A k \in 1..Len(Returned.rows) : "orig_index" \notin DOMAIN Returned.rows[k]

\* a merge of a table whose two rows, of different counters, are in descending
\* date order, with an external table of two rows
C4_Witness ==
    /\ call.fn = "_merge_external_data"
    /\ Len(X_in.rows) = 2 /\ Len(df_ext.rows) = 2
    /\ X_in.rows[1]["date"] > X_in.rows[2]["date"]
    /\ X_in.rows[1]["counter_name"] # X_in.rows[2]["counter_name"]

\* the external rows at or before timestamp d
Prior(d) == {e \in Range(df_ext.rows) : e["date"] <= d}

\* C5: every row of the result carries the attributes of an external row with the
\* greatest timestamp at or before the row's own, and null attributes when no
\* external row is at or before it.
C5_MergeIsAsOfBackward ==
    call.fn = "_merge_external_data" =>
        \A k \in 1..Len(Returned.rows) :
            LET d == Returned.rows[k]["date"]
            IN  IF Prior(d) = {} THEN Returned.rows[k]["t"] = NaN
                ELSE \E e \in Prior(d) :
                        /\ \A o \in Prior(d) : o["date"] <= e["date"]
                        /\ Returned.rows[k]["t"] = e["t"]

\* a merge in which one record is earlier than every external row and another
\* has an external row at exactly its timestamp
C5_Witness ==
    /\ call.fn = "_merge_external_data"
    /\ Len(df_ext.rows) = 2
    /\ \E k \in 1..Len(Returned.rows) : Prior(Returned.rows[k]["date"]) = {}
    /\ \E k \in 1..Len(Returned.rows) :
          \E e \in Range(df_ext.rows) :
              e["date"] = Returned.rows[k]["date"] /\ Returned.rows[k]["t"] = e["t"]

\* C7: after a call of _encode_dates, _additional_date_variables or
\* _merge_external_data the caller's table is what it was before the call:
\* same columns, same rows in the same order, same values.
C7_InputUnchanged ==
    call.fn # "none" => heap[1] = X_in

\* a call has returned a table other than the caller's, of two rows
C7_Witness ==
    /\ call.fn = "_merge_external_data"
    /\ ret = 2 /\ Len(X_in.rows) = 2
    /\ heap[ret] # heap[1]

DerivedCols == {"year", "month", "day", "weekday", "hour"}

\* what _encode_dates returns for the caller's table with the other drop_date
EncodedOtherwise ==
    LET res == _encode_dates(<<X_in>>, 1, ~call.drop_date) IN res.heap[res.ref]

\* C8: _encode_dates returns as many rows as it was given, with the five derived
\* columns; the columns returned with drop_date=True are those returned with
\* drop_date=False without the one column date.
C8_EncodeDatesColumns ==
    call.fn = "_encode_dates" =>
        LET with    == IF call.drop_date THEN EncodedOtherwise ELSE Returned
            without == IF call.drop_date THEN Returned ELSE EncodedOtherwise
        IN  /\ Len(Returned.rows) = Len(X_in.rows)
            /\ DerivedCols \subseteq Range(Returned.cols)
            /\ Len(with.cols) = Len(without.cols) + 1
            /\ without.cols = SelectSeq(with.cols, LAMBDA c : c # "date")
            /\ \A k \in 1..Len(Returned.rows) : DOMAIN Returned.rows[k] = Range(Returned.cols)

\* _encode_dates(X, drop_date=True) has returned for a table of two rows
C8_Witness ==
    call.fn = "_encode_dates" /\ call.drop_date /\ Len(X_in.rows) = 2

-----------------------------------------------------------------------------
(* Properties of the date flags, checked under SpecDates *)

\* (y, m, d) is on or after (y0, m0, d0)
OnOrAfter(y, m, d, y0, m0, d0) ==
    y > y0 \/ (y = y0 /\ (m > m0 \/ (m = m0 /\ d >= d0)))

\* the calendar day of ts lies in 2020-10-30..2020-12-15 or 2021-03-20..2021-06-09
InLockdown(ts) ==
    LET y == dt_year(ts)
        m == dt_month(ts)
        d == dt_day(ts)
    IN  \/ OnOrAfter(y, m, d, 2020, 10, 30) /\ OnOrAfter(2020, 12, 15, y, m, d)
        \/ OnOrAfter(y, m, d, 2021, 3, 20) /\ OnOrAfter(2021, 6, 9, y, m, d)

\* C6: covid_lockdown of a record is true exactly when the calendar day of its
\* timestamp lies in one of the two lockdown ranges, ends included, at any hour.
C6_LockdownByDay ==
    call.fn = "_additional_date_variables" =>
        \A k \in 1..Len(Returned.rows) :
            Returned.rows[k]["covid_lockdown"] = InLockdown(X_in.rows[k]["date"])

\* the record of 2020-12-15 23:00 is flagged
C6_Witness ==
    /\ call.fn = "_additional_date_variables"
    /\ \E k \in 1..Len(Returned.rows) :
          /\ X_in.rows[k]["date"] = Timestamp(2020, 12, 15, 23)
          /\ Returned.rows[k]["covid_lockdown"]

\* the day of ts is a public holiday, a school holiday of zone C
IsPublicHoliday(ts) == dt_date(ts) \in JoursFeries_for_year(dt_year(ts))

IsSchoolHoliday(ts) == \E e \in holidays_for_year_and_zone(dt_year(ts)) : e.date = dt_date(ts)

\* C10: public_holiday and school_holiday depend on the calendar day alone: a
\* record at any hour of a listed day is flagged, and two records of the same day
\* get the same flags.
C10_HolidaysByDay ==
    (call.fn = "_additional_date_variables" /\ ~call.holiday_names) =>
        /\ \A k \in 1..Len(Returned.rows) :
              /\ IsPublicHoliday(X_in.rows[k]["date"]) => Returned.rows[k]["public_holiday"]
              /\ IsSchoolHoliday(X_in.rows[k]["date"]) => Returned.rows[k]["school_holiday"]
        /\ \A k, l \in 1..Len(Returned.rows) :
              dt_date(X_in.rows[k]["date"]) = dt_date(X_in.rows[l]["date"])
              => /\ Returned.rows[k]["public_holiday"] = Returned.rows[l]["public_holiday"]
                 /\ Returned.rows[k]["school_holiday"] = Returned.rows[l]["school_holiday"]

=============================================================================
